---- MODULE Spec2Model ----
(***************************************************************************)
(* Model of the docker-compose module (docker-compose/dagger/src/main.py): *)
(* a Project translates a rendered Compose document into service handles.  *)
(*                                                                         *)
(* Python values are modelled as follows.                                  *)
(*   - An optional value is a sequence of length 0 (None) or 1.            *)
(*   - A dict created by the program is [id, tab]: id is the identity of   *)
(*     the dict object (the allocation number), tab is its contents.       *)
(*   - A mapping of the parsed document is a sequence of entries, in       *)
(*     insertion order (dict iteration order).                             *)
(*   - A Container is the chain of engine operations that produced it.     *)
(***************************************************************************)
EXTENDS Integers, Sequences, FiniteSets, TLC

(* ---- bounds ---- *)
MaxCalls == 5
MaxPreBuild == 2

(* ---- Python helpers ---- *)
None == <<>>

Some(x) == <<x>>

EmptyTab == [k \in {} |-> None]

\* bool() of an optional dict object: None and the empty dict are falsy
Truthy(opt) == opt # None /\ DOMAIN opt[1].tab # {}

\* bool() of the parsed document held in Project.specs
TruthySpecs(opt) == opt # None /\ DOMAIN opt[1] # {}

\* keys of a parsed mapping, in iteration order
RECURSIVE Keys(_)
Keys(m) == IF m = <<>> THEN <<>> ELSE <<Head(m).name>> \o Keys(Tail(m))

Range(s) == {s[i] : i \in 1..Len(s)}

(* ---- the Compose documents a Project may be created on ---- *)
\* spec.md section 8 end-to-end example
DocWeb ==
  [services |-> <<[name |-> "web", specs |-> [image |-> "nginx", ports |-> <<80>>]]>>,
   volumes |-> <<>>]

\* two services, the second without image; one declared volume
DocWebDb ==
  [services |->
     <<[name |-> "web",
        specs |-> [image |-> "nginx",
                   environment |-> <<[name |-> "MODE", value |-> "prod"]>>,
                   labels |-> <<[name |-> "tier", value |-> "front"]>>,
                   entrypoint |-> <<"sh", "run">>,
                   command |-> <<"serve", "now">>,
                   ports |-> <<80, 443>>,
                   volumes |-> <<[source |-> "data", target |-> "/var"],
                                 [source |-> "src", target |-> "/app"]>>]],
       [name |-> "db", specs |-> [ports |-> <<5432>>]]>>,
   volumes |-> <<"data">>]

\* no top-level volumes key
DocNoVolumes ==
  [services |->
     <<[name |-> "web",
        specs |-> [image |-> "nginx",
                   volumes |-> <<[source |-> "data", target |-> "/var"]>>]]>>]

\* no services at all
DocNoServices == [services |-> <<>>, volumes |-> <<"data">>]

\* a document that parses to the empty mapping
DocEmpty == [k \in {} |-> None]

Docs == {DocWeb, DocWebDb, DocNoVolumes, DocNoServices, DocEmpty}

ServiceNames == {"web", "db"}

\* handles of ready-made containers a caller can register
PreBuilt(c) == <<[op |-> "prebuilt", id |-> c]>>

PreBuiltIds == {"c1", "c2"}

VARIABLES doc, pre_build_containers, specs, volumes, services,
          heap, ncalls, last, tasks

vars == <<doc, pre_build_containers, specs, volumes, services, heap, ncalls, last,
          tasks>>

\* the fields of the Project object the methods read and write
Self == [pre_build_containers |-> pre_build_containers, specs |-> specs,
         volumes |-> volumes, services |-> services, heap |-> heap]

(* ---- Project.__get_service: translate one service spec ---- *)
\* the pre-build container the loop of lines 127-130 leaves in `container`:
\* every match assigns, so the last matching entry is the one kept
\* variant: the loop stops at the first match
RECURSIVE PickPreBuild_FirstMatch(_, _, _)
PickPreBuild_FirstMatch(pbcs, service_name, container) ==
  IF pbcs = <<>> THEN container
  ELSE IF Head(pbcs).tag = service_name THEN Some(Head(pbcs).container)
  ELSE PickPreBuild_FirstMatch(Tail(pbcs), service_name, container)

RECURSIVE PickPreBuild(_, _, _)
PickPreBuild(pbcs, service_name, container) ==
  IF pbcs = <<>> THEN container
  ELSE PickPreBuild(Tail(pbcs), service_name,
                    IF Head(pbcs).tag = service_name
                      THEN Some(Head(pbcs).container)
                      ELSE container)

RECURSIVE WithEnvVariables(_, _)
WithEnvVariables(container, items) ==
  IF items = <<>> THEN container
  ELSE WithEnvVariables(
         Append(container, [op |-> "with_env_variable",
                            name |-> Head(items).name, value |-> Head(items).value]),
         Tail(items))

RECURSIVE WithLabels(_, _)
WithLabels(container, items) ==
  IF items = <<>> THEN container
  ELSE WithLabels(
         Append(container, [op |-> "with_label",
                            name |-> Head(items).name, value |-> Head(items).value]),
         Tail(items))

\* variant: the whole list is passed in one call
WithEntrypoints_Whole(container, tokens) ==
  IF tokens = <<>> THEN container
  ELSE Append(container, [op |-> "with_entrypoint", args |-> tokens])

RECURSIVE WithEntrypoints(_, _)
WithEntrypoints(container, tokens) ==
  IF tokens = <<>> THEN container
  ELSE WithEntrypoints(
         Append(container, [op |-> "with_entrypoint", args |-> <<Head(tokens)>>]),
         Tail(tokens))

\* variant: the whole list is passed in one call
WithExecs_Whole(container, tokens) ==
  IF tokens = <<>> THEN container
  ELSE Append(container, [op |-> "with_exec", args |-> tokens])

RECURSIVE WithExecs(_, _)
WithExecs(container, tokens) ==
  IF tokens = <<>> THEN container
  ELSE WithExecs(
         Append(container, [op |-> "with_exec", args |-> <<Head(tokens)>>]),
         Tail(tokens))

\* variant: the result of a call is dropped, every port is exposed on the
\* container the loop started with, so only the last call is kept
WithExposedPorts_Dropped(container, ports) ==
  IF ports = <<>> THEN container
  ELSE Append(container, [op |-> "with_exposed_port", port |-> ports[Len(ports)]])

RECURSIVE WithExposedPorts(_, _)
WithExposedPorts(container, ports) ==
  IF ports = <<>> THEN container
  ELSE WithExposedPorts(
         Append(container, [op |-> "with_exposed_port", port |-> Head(ports)]),
         Tail(ports))

\* variant: the VolumeTable is asked for the target instead of the source
RECURSIVE WithMounts_ByTarget(_, _, _)
WithMounts_ByTarget(container, vols, tab) ==
  IF vols = <<>> THEN container
  ELSE WithMounts_ByTarget(
         IF Head(vols).target \in DOMAIN tab
           THEN Append(container, [op |-> "with_mounted_cache",
                                   path |-> Head(vols).target,
                                   cache |-> tab[Head(vols).target]])
           ELSE Append(container, [op |-> "with_mounted_directory",
                                   path |-> Head(vols).target,
                                   source |-> Head(vols).source]),
         Tail(vols), tab)

\* lines 164-173; self.volumes is a dict here
RECURSIVE WithMounts(_, _, _)
WithMounts(container, vols, tab) ==
  IF vols = <<>> THEN container
  ELSE WithMounts(
         IF Head(vols).source \in DOMAIN tab
           THEN Append(container, [op |-> "with_mounted_cache",
                                   path |-> Head(vols).target,
                                   cache |-> tab[Head(vols).source]])
           ELSE Append(container, [op |-> "with_mounted_directory",
                                   path |-> Head(vols).target,
                                   source |-> Head(vols).source]),
         Tail(vols), tab)

\* the field(s) of a service spec, [] when the key is absent
Field(spec, key) == IF key \in DOMAIN spec THEN spec[key] ELSE <<>>

\* variant: the command is applied before the entrypoint
Configure_CommandFirst(container, spec) ==
  WithExposedPorts(
    WithEntrypoints(
      WithExecs(
        WithLabels(
          WithEnvVariables(container, Field(spec, "environment")),
          Field(spec, "labels")),
        Field(spec, "command")),
      Field(spec, "entrypoint")),
    Field(spec, "ports"))

\* steps 2-6 of the translation (lines 136-161), which cannot raise
Configure(container, spec) ==
  WithExposedPorts(
    WithExecs(
      WithEntrypoints(
        WithLabels(
          WithEnvVariables(container, Field(spec, "environment")),
          Field(spec, "labels")),
        Field(spec, "entrypoint")),
      Field(spec, "command")),
    Field(spec, "ports"))

\* variant: the image of the spec is preferred to a registered override
BaseContainer_ImageFirst(self, service_name, spec) ==
  LET picked == PickPreBuild(self.pre_build_containers, service_name, None)
  IN IF "image" \in DOMAIN spec
       THEN [outcome |-> "ok",
             container |-> <<[op |-> "from_", address |-> spec.image]>>,
             events |-> <<<<"from_", service_name>>>>]
     ELSE IF picked # None
       THEN [outcome |-> "ok", container |-> picked[1], events |-> <<>>]
     ELSE [outcome |-> "KeyError", container |-> <<>>, events |-> <<>>]

\* variant: a missing image defaults to the service name
BaseContainer_DefaultImage(self, service_name, spec) ==
  LET picked == PickPreBuild(self.pre_build_containers, service_name, None)
  IN IF picked # None
       THEN [outcome |-> "ok", container |-> picked[1], events |-> <<>>]
     ELSE [outcome |-> "ok",
           container |-> <<[op |-> "from_",
                            address |-> IF "image" \in DOMAIN spec
                                          THEN spec.image ELSE service_name]>>,
           events |-> <<<<"from_", service_name>>>>]

\* base selection, lines 122-134: the container to configure, or the
\* exception raised by specs["image"]; events: the from_ call if issued
BaseContainer(self, service_name, spec) ==
  LET picked == PickPreBuild(self.pre_build_containers, service_name, None)
  IN IF picked # None
       THEN [outcome |-> "ok", container |-> picked[1], events |-> <<>>]
     ELSE IF "image" \notin DOMAIN spec
       THEN [outcome |-> "KeyError", container |-> <<>>, events |-> <<>>]
     ELSE [outcome |-> "ok",
           container |-> <<[op |-> "from_", address |-> spec.image]>>,
           events |-> <<<<"from_", service_name>>>>]

\* result: outcome "ok" with the ProjectService in ret, or the exception
\* raised; events are the engine calls from_ / as_service that were issued.
\* engine_fails: the engine call behind the first await (line 124) raises.
Project__get_service(self, service_name, spec, engine_fails) ==
  LET base == BaseContainer(self, service_name, spec)
      vols == Field(spec, "volumes")
  IN IF engine_fails
       THEN [outcome |-> "EngineError", ret |-> None, events |-> <<>>]
     ELSE IF base.outcome # "ok"
       THEN [outcome |-> base.outcome, ret |-> None, events |-> base.events]
     ELSE IF vols # <<>> /\ self.volumes = None
       THEN [outcome |-> "TypeError", ret |-> None, events |-> base.events]
     ELSE [outcome |-> "ok",
           ret |-> Some([name |-> service_name, specs |-> spec,
                         service |-> Append(
                            WithMounts(Configure(base.container, spec), vols,
                                       IF vols = <<>> THEN EmptyTab
                                       ELSE self.volumes[1].tab),
                            [op |-> "as_service"])]),
           events |-> base.events \o <<<<"as_service", service_name>>>>]

(* ---- Project methods.  Each takes the Project's fields and returns    ---- *)
(* ---- [self: the fields afterwards, outcome: "ok" or the exception,    ---- *)
(* ----  ret: the returned value, events: the engine calls issued]       ---- *)

\* dag.cache_volume(name)
cache_volume(volume_name) == [cache_volume |-> volume_name]

\* render: the config renderer's result, "ok" or "fail" (ctr.stdout() raises)
Project_get_specs(self, render) ==
  IF TruthySpecs(self.specs)
    THEN [self |-> self, outcome |-> "ok", ret |-> self.specs, events |-> <<>>]
  ELSE IF render = "fail"
    THEN [self |-> self, outcome |-> "EngineError", ret |-> None,
          events |-> <<<<"render">>>>]
  ELSE [self |-> [self EXCEPT !.specs = Some(doc)], outcome |-> "ok",
        ret |-> Some(doc), events |-> <<<<"render">>>>]

\* the loop of lines 112-114 from the i-th name on; the logger call of
\* iteration fail_at - 1 raises (fail_at counts the awaits of get_volumes:
\* 1 is line 111, i + 1 is line 113 for the i-th volume)
RECURSIVE VolumesLoop(_, _, _, _, _)
VolumesLoop(self, names, i, fail_at, events) ==
  IF i > Len(names)
    THEN [self |-> self, outcome |-> "ok", ret |-> self.volumes, events |-> events]
  ELSE IF fail_at = i + 1
    THEN [self |-> self, outcome |-> "EngineError", ret |-> None, events |-> events]
  ELSE VolumesLoop(
         [self EXCEPT !.volumes[1].tab = (names[i] :> cache_volume(names[i])) @@ @],
         names, i + 1, fail_at,
         Append(events, <<"cache_volume", names[i]>>))

\* lines 110-114: first population of self.volumes
ResolveVolumes(self, fail_at) ==
       LET created == [self EXCEPT !.volumes = Some([id |-> self.heap + 1, tab |-> EmptyTab]),
                                   !.heap = self.heap + 1]
       IN IF self.specs = None
            THEN [self |-> created, outcome |-> "TypeError", ret |-> None, events |-> <<>>]
          ELSE IF "volumes" \notin DOMAIN self.specs[1]
            THEN [self |-> created, outcome |-> "KeyError", ret |-> None, events |-> <<>>]
          ELSE IF fail_at = 1
            THEN [self |-> created, outcome |-> "EngineError", ret |-> None, events |-> <<>>]
          ELSE VolumesLoop(created, self.specs[1].volumes, 1, fail_at, <<>>)

Project_get_volumes(self, fail_at) ==
  IF Truthy(self.volumes)
    THEN [self |-> self, outcome |-> "ok", ret |-> self.volumes, events |-> <<>>]
  ELSE ResolveVolumes(self, fail_at)

\* variant: the loop leaves out the last item
RECURSIVE ServicesLoop_SkipLast(_, _, _, _, _)
ServicesLoop_SkipLast(self, items, i, fail_at, events) ==
  IF i >= Len(items)
    THEN [self |-> self, outcome |-> "ok", ret |-> self.services, events |-> events]
  ELSE LET built == Project__get_service(self, items[i].name, items[i].specs,
                                         fail_at = i + 1)
       IN IF built.outcome # "ok"
            THEN [self |-> self, outcome |-> built.outcome, ret |-> None,
                  events |-> events \o built.events]
          ELSE ServicesLoop_SkipLast(
                 [self EXCEPT !.services[1].tab = (items[i].name :> built.ret[1]) @@ @],
                 items, i + 1, fail_at, events \o built.events)

\* the loop of lines 184-185 from the i-th item on; fail_at counts the
\* awaits of get_services: 1 is line 183, i + 1 is the first await of
\* __get_service for the i-th service
RECURSIVE ServicesLoop(_, _, _, _, _)
ServicesLoop(self, items, i, fail_at, events) ==
  IF i > Len(items)
    THEN [self |-> self, outcome |-> "ok", ret |-> self.services, events |-> events]
  ELSE LET built == Project__get_service(self, items[i].name, items[i].specs,
                                         fail_at = i + 1)
       IN IF built.outcome # "ok"
            THEN [self |-> self, outcome |-> built.outcome, ret |-> None,
                  events |-> events \o built.events]
          ELSE ServicesLoop(
                 [self EXCEPT !.services[1].tab = (items[i].name :> built.ret[1]) @@ @],
                 items, i + 1, fail_at, events \o built.events)

\* lines 182-185: first population of self.services
BuildServices(self, fail_at) ==
       LET created == [self EXCEPT !.services = Some([id |-> self.heap + 1, tab |-> EmptyTab]),
                                   !.heap = self.heap + 1]
       IN IF self.specs = None
            THEN [self |-> created, outcome |-> "TypeError", ret |-> None, events |-> <<>>]
          ELSE IF "services" \notin DOMAIN self.specs[1]
            THEN [self |-> created, outcome |-> "KeyError", ret |-> None, events |-> <<>>]
          ELSE IF fail_at = 1
            THEN [self |-> created, outcome |-> "EngineError", ret |-> None, events |-> <<>>]
          ELSE ServicesLoop(created, self.specs[1].services, 1, fail_at, <<>>)

\* variant: the memo is not consulted, every call builds again
Project_get_services_NoMemo(self, fail_at) == BuildServices(self, fail_at)

Project_get_services(self, fail_at) ==
  IF Truthy(self.services)
    THEN [self |-> self, outcome |-> "ok", ret |-> self.services, events |-> <<>>]
  ELSE BuildServices(self, fail_at)

\* up returns None; ret is None on every path
Project_up(self, render, fail_volumes, fail_services) ==
  LET s1 == Project_get_specs(self, render)
      s2 == Project_get_volumes(s1.self, fail_volumes)
      s3 == Project_get_services(s2.self, fail_services)
  IN IF s1.outcome # "ok" THEN [s1 EXCEPT !.ret = None]
     ELSE IF s2.outcome # "ok"
       THEN [s2 EXCEPT !.ret = None, !.events = s1.events \o @]
     ELSE [s3 EXCEPT !.ret = None, !.events = s1.events \o s2.events \o @]

\* `name in self.services` raises TypeError when self.services is None
Project_get_service(self, name) ==
  IF self.services = None
    THEN [self |-> self, outcome |-> "TypeError", ret |-> None, events |-> <<>>]
  ELSE IF name \in DOMAIN self.services[1].tab
    THEN [self |-> self, outcome |-> "ok", ret |-> Some(self.services[1].tab[name]),
          events |-> <<>>]
  ELSE [self |-> self, outcome |-> "ok", ret |-> None, events |-> <<>>]

Project_add_pre_build_container(self, tag, container) ==
  [self |-> [self EXCEPT !.pre_build_containers =
                           Append(@, [tag |-> tag, container |-> container])],
   outcome |-> "ok", ret |-> None, events |-> <<>>]

(* ---- the state machine: one caller issuing calls one after another ---- *)
MaxFail == 3

\* the coroutines running methods of the Project
Callers == {1, 2}

\* a coroutine that runs nothing: pc is the await it is suspended at, i the
\* loop index it resumes with, found_empty what its memo test found, and
\* outcome / ret / events what its last call gave
IdleTask == [pc |-> "idle", op |-> "none", i |-> 0, found_empty |-> FALSE,
             overlapped |-> FALSE, outcome |-> "ok", ret |-> None, events |-> <<>>]

FailAt == 0..MaxFail

RenderOutcomes == {"ok", "fail"}

\* a Project as DockerCompose.project constructs it (lines 212-215)
Init ==
  /\ doc \in Docs
  /\ pre_build_containers = <<>>
  /\ specs = None
  /\ volumes = None
  /\ services = None
  /\ heap = 0
  /\ ncalls = 0
  /\ last = [op |-> "project", arg |-> None, outcome |-> "ok", ret |-> None,
             events |-> <<>>, before |-> [specs |-> None, volumes |-> None,
                                          services |-> None,
                                          pre_build_containers |-> <<>>]]
  /\ tasks = [t \in Callers |-> IdleTask]

\* the effect of a call: the fields it leaves, and what the caller observed
Call(op, arg, r) ==
  /\ ncalls' = ncalls + 1
  /\ pre_build_containers' = r.self.pre_build_containers
  /\ specs' = r.self.specs
  /\ volumes' = r.self.volumes
  /\ services' = r.self.services
  /\ heap' = r.self.heap
  /\ last' = [op |-> op, arg |-> arg, outcome |-> r.outcome, ret |-> r.ret,
              events |-> r.events,
              before |-> [specs |-> specs, volumes |-> volumes,
                          services |-> services,
                          pre_build_containers |-> pre_build_containers]]
  /\ UNCHANGED <<doc, tasks>>

add_pre_build_container ==
  /\ ncalls < MaxCalls
  /\ Len(pre_build_containers) < MaxPreBuild
  /\ \E tag \in ServiceNames, c \in PreBuiltIds :
       Call("add_pre_build_container", Some(tag),
            Project_add_pre_build_container(Self, tag, PreBuilt(c)))

get_specs ==
  /\ ncalls < MaxCalls
  /\ \E render \in RenderOutcomes :
       Call("get_specs", None, Project_get_specs(Self, render))

get_volumes ==
  /\ ncalls < MaxCalls
  /\ \E f \in FailAt : Call("get_volumes", None, Project_get_volumes(Self, f))

get_services ==
  /\ ncalls < MaxCalls
  /\ \E f \in FailAt : Call("get_services", None, Project_get_services(Self, f))

up ==
  /\ ncalls < MaxCalls
  /\ \E render \in RenderOutcomes, fv \in FailAt, fs \in FailAt :
       Call("up", None, Project_up(Self, render, fv, fs))

get_service ==
  /\ ncalls < MaxCalls
  /\ \E name \in ServiceNames :
       Call("get_service", Some(name), Project_get_service(Self, name))

Next ==
  \/ add_pre_build_container
  \/ get_specs
  \/ get_volumes
  \/ get_services
  \/ up
  \/ get_service

Spec == Init /\ [][Next]_vars

(* ---- the service builder on bounded service specs ---- *)
MaxLen == 2

Tokens == {"a", "b"}

Ports == {80, 443}

\* the lists of at most MaxLen elements of S
ListsOver(S) == UNION {[1..n -> S] : n \in 0..MaxLen}

\* a document with one service whose entrypoint, command and ports are given
BuildDoc(entrypoint, command, ports) ==
  [services |->
     <<[name |-> "web",
        specs |-> [image |-> "nginx",
                   environment |-> <<[name |-> "MODE", value |-> "prod"],
                                     [name |-> "DEBUG", value |-> "0"]>>,
                   labels |-> <<[name |-> "tier", value |-> "front"],
                                [name |-> "app", value |-> "shop"]>>,
                   entrypoint |-> entrypoint,
                   command |-> command,
                   ports |-> ports,
                   volumes |-> <<[source |-> "src", target |-> "/app"],
                                 [source |-> "data", target |-> "/var"]>>]]>>,
   volumes |-> <<"data">>]

\* one of the three lists varies, the other two stay as in the first document
BuildDocs ==
  {BuildDoc(e, <<"a", "b">>, <<80, 443>>) : e \in ListsOver(Tokens)}
    \cup {BuildDoc(<<"a", "b">>, c, <<80, 443>>) : c \in ListsOver(Tokens)}
    \cup {BuildDoc(<<"a", "b">>, <<"a", "b">>, p) : p \in ListsOver(Ports)}

\* containers a caller can register: a bare one, and one that already has
\* a port exposed
ExposedPreBuilt ==
  {PreBuilt("c1"),
   PreBuilt("c2") \o <<[op |-> "with_exposed_port", port |-> 8080]>>}

InitBuild ==
  /\ doc \in BuildDocs
  /\ pre_build_containers = <<>>
  /\ specs = None
  /\ volumes = None
  /\ services = None
  /\ heap = 0
  /\ ncalls = 0
  /\ last = [op |-> "project", arg |-> None, outcome |-> "ok", ret |-> None,
             events |-> <<>>, before |-> [specs |-> None, volumes |-> None,
                                          services |-> None,
                                          pre_build_containers |-> <<>>]]
  /\ tasks = [t \in Callers |-> IdleTask]

add_exposed_pre_build_container ==
  /\ ncalls < MaxCalls
  /\ Len(pre_build_containers) < MaxPreBuild
  /\ \E c \in ExposedPreBuilt :
       Call("add_pre_build_container", Some("web"),
            Project_add_pre_build_container(Self, "web", c))

NextBuild ==
  \/ add_exposed_pre_build_container
  \/ up

SpecBuild == InitBuild /\ [][NextBuild]_vars

(* ---- two coroutines on one Project, switching at the awaits ---- *)
\* two services that can both be built; one declared volume
DocTwo ==
  [services |->
     <<[name |-> "web",
        specs |-> [image |-> "nginx",
                   volumes |-> <<[source |-> "data", target |-> "/var"]>>]],
       [name |-> "db", specs |-> [image |-> "postgres"]]>>,
   volumes |-> <<"data">>]

ConcDocs == {DocWeb, DocTwo}

\* get_specs up to its first await (line 84): the memo test of line 76
SpecsStart(self) ==
  IF TruthySpecs(self.specs)
    THEN [self |-> self, pc |-> "idle", i |-> 0, found_empty |-> FALSE,
          outcome |-> "ok", ret |-> self.specs, events |-> <<>>]
  ELSE [self |-> self, pc |-> "get_specs_await", i |-> 0, found_empty |-> TRUE,
        outcome |-> "ok", ret |-> None, events |-> <<>>]

\* get_specs from its last await on (lines 97-103)
SpecsResume(self, render) ==
  IF render = "fail"
    THEN [self |-> self, pc |-> "idle", i |-> 0, outcome |-> "EngineError",
          ret |-> None, events |-> <<<<"render">>>>]
  ELSE [self |-> [self EXCEPT !.specs = Some(doc)], pc |-> "idle", i |-> 0,
        outcome |-> "ok", ret |-> Some(doc), events |-> <<<<"render">>>>]

\* get_volumes up to its first await (lines 109-111)
VolumesStart(self) ==
  IF Truthy(self.volumes)
    THEN [self |-> self, pc |-> "idle", i |-> 0, found_empty |-> FALSE,
          outcome |-> "ok", ret |-> self.volumes, events |-> <<>>]
  ELSE LET created == [self EXCEPT !.volumes = Some([id |-> self.heap + 1, tab |-> EmptyTab]),
                                   !.heap = self.heap + 1]
       IN IF self.specs = None
            THEN [self |-> created, pc |-> "idle", i |-> 0, found_empty |-> TRUE,
                  outcome |-> "TypeError", ret |-> None, events |-> <<>>]
          ELSE IF "volumes" \notin DOMAIN self.specs[1]
            THEN [self |-> created, pc |-> "idle", i |-> 0, found_empty |-> TRUE,
                  outcome |-> "KeyError", ret |-> None, events |-> <<>>]
          ELSE [self |-> created, pc |-> "get_volumes_await", i |-> 1,
                found_empty |-> TRUE, outcome |-> "ok", ret |-> None, events |-> <<>>]

\* get_volumes from the await before the i-th assignment of line 114 to the
\* next await or the return; the assignment goes to the dict self.volumes
\* holds now
VolumesResume(self, i) ==
  LET names == self.specs[1].volumes
  IN IF i > Len(names)
       THEN [self |-> self, pc |-> "idle", i |-> i, outcome |-> "ok",
             ret |-> self.volumes, events |-> <<>>]
     ELSE LET stored == [self EXCEPT !.volumes[1].tab =
                                       (names[i] :> cache_volume(names[i])) @@ @]
          IN IF i = Len(names)
               THEN [self |-> stored, pc |-> "idle", i |-> i, outcome |-> "ok",
                     ret |-> stored.volumes, events |-> <<<<"cache_volume", names[i]>>>>]
             ELSE [self |-> stored, pc |-> "get_volumes_await", i |-> i + 1,
                   outcome |-> "ok", ret |-> None,
                   events |-> <<<<"cache_volume", names[i]>>>>]

\* get_services up to its first await (lines 181-183)
ServicesStart(self) ==
  IF Truthy(self.services)
    THEN [self |-> self, pc |-> "idle", i |-> 0, found_empty |-> FALSE,
          outcome |-> "ok", ret |-> self.services, events |-> <<>>]
  ELSE LET created == [self EXCEPT !.services = Some([id |-> self.heap + 1, tab |-> EmptyTab]),
                                   !.heap = self.heap + 1]
       IN IF self.specs = None
            THEN [self |-> created, pc |-> "idle", i |-> 0, found_empty |-> TRUE,
                  outcome |-> "TypeError", ret |-> None, events |-> <<>>]
          ELSE IF "services" \notin DOMAIN self.specs[1]
            THEN [self |-> created, pc |-> "idle", i |-> 0, found_empty |-> TRUE,
                  outcome |-> "KeyError", ret |-> None, events |-> <<>>]
          ELSE [self |-> created, pc |-> "get_services_await", i |-> 1,
                found_empty |-> TRUE, outcome |-> "ok", ret |-> None, events |-> <<>>]

\* variant: a service another coroutine has stored already is not built again
ServicesResume_SkipBuilt(self, i) ==
  LET items == self.specs[1].services
  IN IF i > Len(items)
       THEN [self |-> self, pc |-> "idle", i |-> i, outcome |-> "ok",
             ret |-> self.services, events |-> <<>>]
     ELSE IF items[i].name \in DOMAIN self.services[1].tab
       THEN IF i = Len(items)
              THEN [self |-> self, pc |-> "idle", i |-> i, outcome |-> "ok",
                    ret |-> self.services, events |-> <<>>]
              ELSE [self |-> self, pc |-> "get_services_await", i |-> i + 1,
                    outcome |-> "ok", ret |-> None, events |-> <<>>]
     ELSE LET built == Project__get_service(self, items[i].name, items[i].specs, FALSE)
              stored == [self EXCEPT !.services[1].tab =
                                       (items[i].name :> built.ret[1]) @@ @]
          IN IF built.outcome # "ok"
               THEN [self |-> self, pc |-> "idle", i |-> i, outcome |-> built.outcome,
                     ret |-> None, events |-> built.events]
             ELSE IF i = Len(items)
               THEN [self |-> stored, pc |-> "idle", i |-> i, outcome |-> "ok",
                     ret |-> stored.services, events |-> built.events]
             ELSE [self |-> stored, pc |-> "get_services_await", i |-> i + 1,
                   outcome |-> "ok", ret |-> None, events |-> built.events]

\* get_services from the awaits of the i-th __get_service call to the awaits
\* of the next one or the return (lines 184-187); the assignment of line 185
\* goes to the dict self.services holds now
ServicesResume(self, i) ==
  LET items == self.specs[1].services
  IN IF i > Len(items)
       THEN [self |-> self, pc |-> "idle", i |-> i, outcome |-> "ok",
             ret |-> self.services, events |-> <<>>]
     ELSE LET built == Project__get_service(self, items[i].name, items[i].specs, FALSE)
              stored == [self EXCEPT !.services[1].tab =
                                       (items[i].name :> built.ret[1]) @@ @]
          IN IF built.outcome # "ok"
               THEN [self |-> self, pc |-> "idle", i |-> i, outcome |-> built.outcome,
                     ret |-> None, events |-> built.events]
             ELSE IF i = Len(items)
               THEN [self |-> stored, pc |-> "idle", i |-> i, outcome |-> "ok",
                     ret |-> stored.services, events |-> built.events]
             ELSE [self |-> stored, pc |-> "get_services_await", i |-> i + 1,
                   outcome |-> "ok", ret |-> None, events |-> built.events]

InitConc ==
  /\ doc \in ConcDocs
  /\ pre_build_containers = <<>>
  /\ specs = None
  /\ volumes = None
  /\ services = None
  /\ heap = 0
  /\ ncalls = 0
  /\ last = [op |-> "project", arg |-> None, outcome |-> "ok", ret |-> None,
             events |-> <<>>, before |-> [specs |-> None, volumes |-> None,
                                          services |-> None,
                                          pre_build_containers |-> <<>>]]
  /\ tasks = [t \in Callers |-> IdleTask]

\* the Project fields a step leaves
Fields(r) ==
  /\ specs' = r.self.specs
  /\ volumes' = r.self.volumes
  /\ services' = r.self.services
  /\ heap' = r.self.heap
  /\ UNCHANGED <<doc, pre_build_containers, last>>

\* coroutine t calls op and runs to its first await or its return; a call
\* of get_services while the other coroutine is inside get_services marks
\* both as overlapped
Begin(t, op, r) ==
  /\ tasks[t].pc = "idle"
  /\ ncalls < MaxCalls
  /\ ncalls' = ncalls + 1
  /\ Fields(r)
  /\ tasks' = [u \in Callers |->
       IF u = t
         THEN [pc |-> r.pc, op |-> op, i |-> r.i, found_empty |-> r.found_empty,
               overlapped |-> (op = "get_services" /\
                               \E o \in Callers \ {t} : tasks[o].pc = "get_services_await"),
               outcome |-> r.outcome, ret |-> r.ret, events |-> r.events]
         ELSE IF op = "get_services" /\ tasks[u].pc = "get_services_await"
           THEN [tasks[u] EXCEPT !.overlapped = TRUE]
         ELSE tasks[u]]

\* coroutine t is resumed and runs to its next await or its return
Resume(t, r) ==
  /\ UNCHANGED ncalls
  /\ Fields(r)
  /\ tasks' = [tasks EXCEPT ![t].pc = r.pc, ![t].i = r.i, ![t].outcome = r.outcome,
                            ![t].ret = r.ret, ![t].events = @ \o r.events]

call_get_specs(t) ==
  /\ tasks[t].pc = "idle"
  /\ Begin(t, "get_specs", SpecsStart(Self))

resume_get_specs(t) ==
  /\ tasks[t].pc = "get_specs_await"
  /\ \E render \in RenderOutcomes : Resume(t, SpecsResume(Self, render))

call_get_volumes(t) ==
  /\ tasks[t].pc = "idle"
  /\ Begin(t, "get_volumes", VolumesStart(Self))

resume_get_volumes(t) ==
  /\ tasks[t].pc = "get_volumes_await"
  /\ Resume(t, VolumesResume(Self, tasks[t].i))

call_get_services(t) ==
  /\ tasks[t].pc = "idle"
  /\ Begin(t, "get_services", ServicesStart(Self))

resume_get_services(t) ==
  /\ tasks[t].pc = "get_services_await"
  /\ Resume(t, ServicesResume(Self, tasks[t].i))

NextConc ==
  \E t \in Callers :
    \/ call_get_specs(t)
    \/ resume_get_specs(t)
    \/ call_get_volumes(t)
    \/ resume_get_volumes(t)
    \/ call_get_services(t)
    \/ resume_get_services(t)

SpecConc == InitConc /\ [][NextConc]_vars

(* ---- properties ---- *)
\* the ServiceTable / VolumeTable contents, {} when the field is None
ServiceTab == IF services = None THEN EmptyTab ELSE services[1].tab

VolumeTab == IF volumes = None THEN EmptyTab ELSE volumes[1].tab

\* the items of specs["services"], [] when there are none to read
ServiceItems ==
  IF specs # None /\ "services" \in DOMAIN specs[1] THEN specs[1].services ELSE <<>>

\* the registered pre-build containers whose tag is exactly name
Matches(name) == SelectSeq(pre_build_containers, LAMBDA p : p.tag = name)

\* container c is the base the chain of a built service starts from
IsBase(c, ps) == Len(ps.service) >= Len(c) /\ SubSeq(ps.service, 1, Len(c)) = c

\* the last call executed lines 182-185 (a new ServiceTable object exists)
Rebuilt == last.op \in {"get_services", "up"} /\ services # last.before.services

\* the Project was as constructed when the last call started
Fresh == /\ last.before.specs = None
         /\ last.before.volumes = None
         /\ last.before.services = None

\* C1: get_service(n) returns absent without raising while get_services has
\* never been triggered (self.services is None exactly until its first
\* trigger), and otherwise returns the entry stored under n, absent if none.
C1_GetServiceIsPureLookup ==
  last.op = "get_service" =>
    /\ last.outcome = "ok"
    /\ LET n == last.arg[1]
       IN IF last.before.services # None /\ n \in DOMAIN last.before.services[1].tab
            THEN last.ret = Some(last.before.services[1].tab[n])
            ELSE last.ret = None

\* C2: a successful get_volumes on a loaded document returns one entry per
\* declared volume, and a get_volumes that follows a successful get_volumes
\* returns the same dict object and calls the allocator no more.
C2_GetVolumesIdempotent ==
  [][(/\ ncalls' = ncalls + 1
      /\ last'.op = "get_volumes"
      /\ last'.outcome = "ok"
      /\ specs # None
      /\ "volumes" \in DOMAIN specs[1])
     => /\ DOMAIN last'.ret[1].tab = Range(specs[1].volumes)
        /\ (last.op = "get_volumes" /\ last.outcome = "ok")
             => /\ last'.ret[1].id = last.ret[1].id
                /\ last'.events = <<>>]_vars

\* stage of an engine call: 1 render, 2 cache volume allocation, 3 build
StageOf(e) == IF e[1] = "render" THEN 1 ELSE IF e[1] = "cache_volume" THEN 2 ELSE 3

EventsOf(kind) == SelectSeq(last.events, LAMBDA e : e[1] = kind)

\* C3: a successful up() on a fresh Project renders, then allocates the
\* volumes, then builds the services, and leaves exactly one ProjectService
\* per item of specs["services"], keyed by its name; for the document
\* {web: {image nginx, ports [80]}} that is the single entry web, from nginx,
\* port 80 exposed, no mount.
C3_UpBuildsEveryService ==
  (last.op = "up" /\ last.outcome = "ok" /\ Fresh) =>
    /\ \A i, j \in 1..Len(last.events) :
         i < j => StageOf(last.events[i]) <= StageOf(last.events[j])
    /\ EventsOf("render") = <<<<"render">>>>
    /\ specs = Some(doc)
    /\ volumes # None
    /\ [i \in 1..Len(EventsOf("cache_volume")) |-> EventsOf("cache_volume")[i][2]]
         = doc.volumes
    /\ [i \in 1..Len(EventsOf("as_service")) |-> EventsOf("as_service")[i][2]]
         = Keys(doc.services)
    /\ services # None
    /\ DOMAIN ServiceTab = Range(Keys(doc.services))
    /\ \A i \in 1..Len(doc.services) :
         /\ ServiceTab[doc.services[i].name].name = doc.services[i].name
         /\ ServiceTab[doc.services[i].name].specs = doc.services[i].specs
    /\ (doc = DocWeb /\ Matches("web") = <<>>) =>
         ServiceTab = ("web" :> [name |-> "web",
                                 specs |-> [image |-> "nginx", ports |-> <<80>>],
                                 service |-> <<[op |-> "from_", address |-> "nginx"],
                                               [op |-> "with_exposed_port", port |-> 80],
                                               [op |-> "as_service"]>>])

C3_Witness ==
  /\ last.op = "up" /\ last.outcome = "ok" /\ Fresh
  /\ doc = DocWeb
  /\ Matches("web") = <<>>
  /\ "web" \in DOMAIN ServiceTab

\* C4 as stated: with several pre-build containers tagged with the service
\* name, the service is built on the first one registered.
C4_FirstMatchWins ==
  Rebuilt => \A n \in DOMAIN ServiceTab :
    Matches(n) # <<>> => IsBase(Matches(n)[1].container, ServiceTab[n])

\* C4 amended: with several pre-build containers tagged with the service
\* name, the service is built on the last one registered; a container whose
\* tag is a different string is never used.
C4_LastMatchWins ==
  Rebuilt => \A n \in DOMAIN ServiceTab :
    /\ Matches(n) # <<>> =>
         IsBase(Matches(n)[Len(Matches(n))].container, ServiceTab[n])
    /\ \A k \in 1..Len(pre_build_containers) :
         (pre_build_containers[k].tag # n /\ Matches(n) = <<>>) =>
            ~ IsBase(pre_build_containers[k].container, ServiceTab[n])

C4_Witness ==
  /\ Rebuilt
  /\ \E n \in DOMAIN ServiceTab :
       /\ Len(Matches(n)) = 2
       /\ Matches(n)[1].container # Matches(n)[2].container
       /\ IsBase(Matches(n)[2].container, ServiceTab[n])

\* C5: a service whose name is the tag of a registered pre-build container
\* is built on such a container and no from_ call is issued for it, also
\* when its spec has an image; a service without matching tag starts from
\* from_(spec.image).
C5_OverrideReplacesImage ==
  Rebuilt => \A i \in 1..Len(ServiceItems) :
    LET n == ServiceItems[i].name
    IN IF Matches(n) # <<>>
         THEN /\ <<"from_", n>> \notin Range(last.events)
              /\ n \in DOMAIN ServiceTab =>
                   /\ \E k \in 1..Len(Matches(n)) :
                        IsBase(Matches(n)[k].container, ServiceTab[n])
                   /\ \A k \in 1..Len(ServiceTab[n].service) :
                        ServiceTab[n].service[k].op # "from_"
         ELSE n \in DOMAIN ServiceTab =>
                /\ IsBase(<<[op |-> "from_", address |-> ServiceItems[i].specs.image]>>,
                          ServiceTab[n])
                /\ <<"from_", n>> \in Range(last.events)

C5_Witness ==
  /\ Rebuilt
  /\ "web" \in DOMAIN ServiceTab
  /\ "image" \in DOMAIN ServiceTab["web"].specs
  /\ Matches("web") # <<>>
  /\ ServiceTab["web"].service[1].op = "prebuilt"
  /\ "db" \in DOMAIN ServiceTab

\* C6: an entry of the ServiceTable never changes afterwards, whatever is
\* registered and whichever method is called again.
C6_NotRetroactive ==
  [][\A n \in DOMAIN ServiceTab :
       /\ services' # None
       /\ n \in DOMAIN services'[1].tab
       /\ services'[1].tab[n] = ServiceTab[n]]_vars

\* a container was registered for a built service and the table asked again
C6_Witness ==
  /\ last.op \in {"get_services", "up"}
  /\ last.outcome = "ok"
  /\ Truthy(last.before.services)
  /\ \E n \in DOMAIN ServiceTab :
       /\ Matches(n) # <<>>
       /\ ServiceTab[n].service[1].op = "from_"

\* a service spec that cannot be given a base: no image, no matching tag
NoBase(item) == "image" \notin DOMAIN item.specs /\ Matches(item.name) = <<>>

\* C7: a service without image and without matching pre-build container is
\* never in the ServiceTable, and a call that builds the services of a
\* document with such a service raises.
C7_MissingImageFails ==
  \A i \in 1..Len(ServiceItems) :
    NoBase(ServiceItems[i]) =>
      /\ ServiceItems[i].name \notin DOMAIN ServiceTab
      /\ Rebuilt => last.outcome # "ok"

C7_Witness ==
  /\ Rebuilt
  /\ last.outcome = "KeyError"
  /\ \E i \in 1..Len(ServiceItems) : NoBase(ServiceItems[i])
  /\ "web" \in DOMAIN ServiceTab

\* C8: on a loaded document with services and without top-level volumes key
\* get_volumes returns an empty table.
C8_MissingVolumesKeyTolerated ==
  (/\ last.op = "get_volumes"
   /\ last.before.specs # None
   /\ "services" \in DOMAIN last.before.specs[1]
   /\ "volumes" \notin DOMAIN last.before.specs[1])
  => /\ last.outcome = "ok"
     /\ last.ret # None
     /\ DOMAIN last.ret[1].tab = {}

\* C9: a get_services / get_volumes / get_specs that raised leaves its memo
\* without content, so that a retry starts from scratch and get_service
\* finds no service.
C9_FailureLeavesMemoUnpopulated ==
  /\ (last.op = "get_services" /\ last.outcome # "ok") => DOMAIN ServiceTab = {}
  /\ (last.op = "get_volumes" /\ last.outcome # "ok") => DOMAIN VolumeTab = {}
  /\ (last.op = "get_specs" /\ last.outcome # "ok") => ~ TruthySpecs(specs)

\* C10: a ServiceTable with entries implies that the volumes were resolved
\* (a VolumeTable exists), and a VolumeTable with entries implies loaded
\* specs.
C10_StagesInOrder ==
  /\ DOMAIN ServiceTab # {} => volumes # None
  /\ DOMAIN VolumeTab # {} => specs # None

\* the mount operations of a container chain, in order
Mounts(container) ==
  SelectSeq(container,
            LAMBDA o : o.op \in {"with_mounted_cache", "with_mounted_directory"})

\* C11: a built service has exactly one mount per entry of its volumes list,
\* in order: a cache mount of the VolumeTable's handle at target when source
\* is a key of the VolumeTable, a directory mount of base_dir/source at
\* target otherwise.
C11_MountPerEntry ==
  Rebuilt => \A n \in DOMAIN ServiceTab :
    LET vols == Field(ServiceTab[n].specs, "volumes")
        m == Mounts(ServiceTab[n].service)
    IN /\ Len(m) = Len(vols)
       /\ \A k \in 1..Len(vols) :
            IF vols[k].source \in DOMAIN VolumeTab
              THEN m[k] = [op |-> "with_mounted_cache", path |-> vols[k].target,
                           cache |-> VolumeTab[vols[k].source]]
              ELSE m[k] = [op |-> "with_mounted_directory", path |-> vols[k].target,
                           source |-> vols[k].source]

C11_Witness ==
  /\ Rebuilt
  /\ "web" \in DOMAIN ServiceTab
  /\ Len(Mounts(ServiceTab["web"].service)) = 2
  /\ Mounts(ServiceTab["web"].service)[1].op = "with_mounted_cache"
  /\ Mounts(ServiceTab["web"].service)[2].op = "with_mounted_directory"

(* ---- what the engine keeps of a container chain ---- *)
\* with_entrypoint sets the entrypoint: the last call is the one in force
EntrypointOf(container) ==
  LET e == SelectSeq(container, LAMBDA o : o.op = "with_entrypoint")
  IN IF e = <<>> THEN None ELSE Some(e[Len(e)].args)

\* the with_exec calls of the chain, in order
ExecsOf(container) == SelectSeq(container, LAMBDA o : o.op = "with_exec")

\* the command as_service starts: the one of the last with_exec
CommandOf(container) ==
  IF ExecsOf(container) = <<>> THEN None
  ELSE Some(ExecsOf(container)[Len(ExecsOf(container))].args)

\* with_exposed_port adds a port to the exposed ones
ExposedPortsOf(container) ==
  {container[i].port :
     i \in {j \in 1..Len(container) : container[j].op = "with_exposed_port"}}

\* the container the build of service n started from in the last call
BaseOf(n) ==
  IF Matches(n) # <<>> THEN Matches(n)[Len(Matches(n))].container
  ELSE <<[op |-> "from_", address |-> ServiceTab[n].specs.image]>>

\* C12: the entrypoint in force on a service built from entrypoint
\* [t1, ..., tn], n >= 1, is [tn].
C12_LastEntrypointWins ==
  Rebuilt => \A n \in DOMAIN ServiceTab :
    LET e == Field(ServiceTab[n].specs, "entrypoint")
    IN Len(e) >= 1 => EntrypointOf(ServiceTab[n].service) = Some(<<e[Len(e)]>>)

C12_Witness ==
  /\ Rebuilt
  /\ "web" \in DOMAIN ServiceTab
  /\ LET e == Field(ServiceTab["web"].specs, "entrypoint")
     IN /\ Len(e) >= 2
        /\ e[1] # e[Len(e)]
        /\ EntrypointOf(ServiceTab["web"].service) = Some(<<e[Len(e)]>>)

\* position of an operation in the translation of one service
StepOf(o) ==
  CASE o.op = "with_env_variable" -> 2
    [] o.op = "with_label" -> 3
    [] o.op = "with_entrypoint" -> 4
    [] o.op = "with_exec" -> 5
    [] o.op = "with_exposed_port" -> 6
    [] o.op \in {"with_mounted_cache", "with_mounted_directory"} -> 7
    [] o.op = "as_service" -> 8
    [] OTHER -> 1

\* the operations issued on the base container of ps, in order
IssuedOn(base, ps) == SubSeq(ps.service, Len(base) + 1, Len(ps.service))

\* the operations of step k among ops, in order
OfStep(ops, k) == SelectSeq(ops, LAMBDA o : StepOf(o) = k)

\* C18: the operations issued on the base container of a built service come
\* in the order environment, labels, entrypoint, command, ports, mounts,
\* as_service, and within each step one per item of the spec's mapping or
\* list, in its order.
C18_FieldOrder ==
  Rebuilt => \A n \in DOMAIN ServiceTab :
    LET ps == ServiceTab[n]
        ops == IssuedOn(BaseOf(n), ps)
        env == Field(ps.specs, "environment")
        lab == Field(ps.specs, "labels")
        ent == Field(ps.specs, "entrypoint")
        cmd == Field(ps.specs, "command")
        prt == Field(ps.specs, "ports")
        vol == Field(ps.specs, "volumes")
    IN /\ IsBase(BaseOf(n), ps)
       /\ \A i, j \in 1..Len(ops) : i < j => StepOf(ops[i]) <= StepOf(ops[j])
       /\ OfStep(ops, 1) = <<>>
       /\ OfStep(ops, 2) = [k \in 1..Len(env) |->
            [op |-> "with_env_variable", name |-> env[k].name, value |-> env[k].value]]
       /\ OfStep(ops, 3) = [k \in 1..Len(lab) |->
            [op |-> "with_label", name |-> lab[k].name, value |-> lab[k].value]]
       /\ OfStep(ops, 4) = [k \in 1..Len(ent) |->
            [op |-> "with_entrypoint", args |-> <<ent[k]>>]]
       /\ OfStep(ops, 5) = [k \in 1..Len(cmd) |-> [op |-> "with_exec", args |-> <<cmd[k]>>]]
       /\ OfStep(ops, 6) = [k \in 1..Len(prt) |-> [op |-> "with_exposed_port", port |-> prt[k]]]
       /\ Len(OfStep(ops, 7)) = Len(vol)
       /\ \A k \in 1..Len(vol) : OfStep(ops, 7)[k].path = vol[k].target
       /\ OfStep(ops, 8) = <<[op |-> "as_service"]>>

\* every step has operations, and the two command tokens differ
C18_Witness ==
  /\ Rebuilt
  /\ "web" \in DOMAIN ServiceTab
  /\ \A k \in 2..8 :
       OfStep(IssuedOn(BaseOf("web"), ServiceTab["web"]), k) # <<>>
  /\ Len(Field(ServiceTab["web"].specs, "entrypoint")) = 2
  /\ Field(ServiceTab["web"].specs, "command") = <<"a", "b">>
  /\ Len(BaseOf("web")) = 2

\* C19: the ports exposed on a built service are those exposed on its base
\* container together with every port of the spec's ports list.
C19_PortsAccumulate ==
  Rebuilt => \A n \in DOMAIN ServiceTab :
    ExposedPortsOf(ServiceTab[n].service)
      = ExposedPortsOf(BaseOf(n)) \cup Range(Field(ServiceTab[n].specs, "ports"))

C19_Witness ==
  /\ Rebuilt
  /\ "web" \in DOMAIN ServiceTab
  /\ ExposedPortsOf(BaseOf("web")) = {8080}
  /\ ExposedPortsOf(ServiceTab["web"].service) = {8080, 80, 443}

\* C20: a service built from command [c1, ..., cn], n >= 1, has one
\* with_exec call per token, each with that token alone, in order, and the
\* command in force (that of the last with_exec) is [cn].
C20_LastCommandWins ==
  Rebuilt => \A n \in DOMAIN ServiceTab :
    LET c == Field(ServiceTab[n].specs, "command")
    IN Len(c) >= 1 =>
         /\ CommandOf(ServiceTab[n].service) = Some(<<c[Len(c)]>>)
         /\ \A k \in 1..Len(ExecsOf(ServiceTab[n].service)) :
              Len(ExecsOf(ServiceTab[n].service)[k].args) = 1

C20_Witness ==
  /\ Rebuilt
  /\ "web" \in DOMAIN ServiceTab
  /\ LET c == Field(ServiceTab["web"].specs, "command")
     IN /\ Len(c) >= 2
        /\ c[1] # c[Len(c)]
        /\ CommandOf(ServiceTab["web"].service) = Some(<<c[Len(c)]>>)
        /\ EntrypointOf(ServiceTab["web"].service) # Some(<<c[Len(c)]>>)

\* C13: once a memo field holds a value its contents never change.
C13_MemoWrittenOnce ==
  [][/\ specs # None => specs' = specs
     /\ volumes # None => (volumes' # None /\ volumes'[1].tab = volumes[1].tab)
     /\ services # None => (services' # None /\ services'[1].tab = services[1].tab)]_vars

\* C16: get_volumes on a Project whose specs are not loaded raises and
\* leaves self.volumes as it was.
C16_GetVolumesNeedsSpecs ==
  (last.op = "get_volumes" /\ last.before.specs = None) =>
    /\ last.outcome # "ok"
    /\ volumes = last.before.volumes

\* C17: a get_specs on a Project whose specs were loaded before returns the
\* cached mapping and does not render again.
C17_RenderedOnce ==
  (last.op = "get_specs" /\ last.before.specs # None) =>
    /\ last.outcome = "ok"
    /\ last.ret = last.before.specs
    /\ last.events = <<>>

\* the engine calls of one kind a coroutine issued in its last call: their
\* arguments, in order
IssuedBy(t, kind) ==
  LET e == SelectSeq(tasks[t].events, LAMBDA x : x[1] = kind)
  IN [k \in 1..Len(e) |-> e[k][2]]

\* C14: a get_services that overlapped with another coroutine's get_services
\* returns a table with an entry for every service of the document.
C14_NoPartialTableReturned ==
  \A t \in Callers :
    (/\ tasks[t].pc = "idle"
     /\ tasks[t].op = "get_services"
     /\ tasks[t].outcome = "ok"
     /\ tasks[t].overlapped)
    => /\ tasks[t].ret # None
       /\ DOMAIN tasks[t].ret[1].tab = Range(Keys(doc.services))

\* C15: first population is not guarded: a coroutine whose memo test found
\* the memo empty does the whole population itself, whatever the other
\* coroutine has done since (it renders; it allocates every volume; it builds
\* every service), so that work is done twice when two coroutines race.
C15_PopulationNotGuarded ==
  \A t \in Callers :
    (tasks[t].pc = "idle" /\ tasks[t].outcome = "ok" /\ tasks[t].found_empty) =>
      /\ tasks[t].op = "get_specs" => tasks[t].events = <<<<"render">>>>
      /\ tasks[t].op = "get_volumes" => IssuedBy(t, "cache_volume") = doc.volumes
      /\ tasks[t].op = "get_services" => IssuedBy(t, "as_service") = Keys(doc.services)

\* both coroutines have built the service web in overlapping get_services
C15_Witness ==
  \A t \in Callers :
    /\ tasks[t].pc = "idle"
    /\ tasks[t].op = "get_services"
    /\ tasks[t].outcome = "ok"
    /\ tasks[t].overlapped
    /\ <<"as_service", "web">> \in Range(tasks[t].events)

====
